---- MODULE Spec2Model ----
(***************************************************************************)
(* Model of the betting database of virtual-soccer (src/database.js), the  *)
(* funds operations of the betting manager (src/bettingManager.js) and the *)
(* ingestion step of the scraper (src/index.js).                           *)
(*                                                                         *)
(* Tables are sequences: the AUTOINCREMENT id of a row is its index.       *)
(* Money is counted in whole currency units, odds in tenths (25 is 2.5);   *)
(* every stake of the model is a multiple of 10, so amount * odds is exact *)
(* as it is for the same values in the double arithmetic of the code.      *)
(* In the first part every operation is one step: the calls of one process *)
(* run one after the other and no storage failure occurs.  The second part *)
(* takes the operations statement by statement, as the two processes that  *)
(* open the database file run them, with and without interruptions.        *)
(* Scores are strings, modelled as sequences of one-character strings.     *)
(* The numbers read from a score are counted in tenths (20 is 2), since    *)
(* Number reads a side such as '1.5' as the number it spells.              *)
(***************************************************************************)
EXTENDS Integers, Sequences, FiniteSets, TLC

----------------------------------------------------------------------------
(* Bounds of the model *)

MaxMatches == 2
MaxOdds == 1
MaxBets == 2
MaxTx == 5
MaxDay == 2
MaxSnapshots == 2

----------------------------------------------------------------------------
(* Values *)

initialBalance == 1000

\* SQL NULL / JS null in a text column, and the value of a parameter not passed
Null == "null"
Undefined == "undefined"
\* SQL NULL in the numeric columns: an odds value that was not published, and
\* the bet_id of a transaction that belongs to no bet
NullOdds == 0
NoBet == 0
\* the null a resolver returns from its catch, bound as SQL NULL to an id column
NullId == 0
\* a score that is missing: NULL, undefined and '' are all falsy in saveMatch
NoScore == <<>>

StageNames == {"Matchday 1"}
Pairings == {<<"TEAM A", "TEAM B">>}

\* one stage and one pairing as callers may spell them: in capitals and
\* trimmed, in the case of the page, and with a blank left at the end
StageSpellings == {"MATCHDAY 1", "Matchday 1"}
PairingSpellings == {<<"TEAM A", "TEAM B">>, <<"Team A", "TEAM B">>, <<"TEAM A", "TEAM B ">>}

\* scores as the scraper reads them from the page, and as saveMatch may be given them
RawScores == {<<"2", ":", "1">>, <<"1", " ", ":", "1">>}

\* score strings saveMatch may be given: '1:2', '2:2', '3', ':2', 'x:1', '1.5:1'
ScoreSamples == {<<"1", ":", "2">>, <<"2", ":", "2">>, <<"3">>, <<":", "2">>,
                 <<"x", ":", "1">>, <<"1", ".", "5", ":", "1">>}

Sides == {"HOME", "DRAW", "AWAY"}
Results == {"HOME_WIN", "AWAY_WIN", "DRAW"}

OddsObservations == {[home_odds |-> 25, draw_odds |-> 30, away_odds |-> NullOdds]}

\* odds observed one after the other for one match, the later ones changed
OddsSeries == {[home_odds |-> 25, draw_odds |-> 30, away_odds |-> NullOdds],
               [home_odds |-> 27, draw_odds |-> 32, away_odds |-> 21]}

\* the bets asked for: a side, a stake and the odds passed to placeBet, which
\* the caller has read from the page and not from the odds log
BetOrders == {[team_bet_on |-> "HOME", amount |-> 50, odds |-> 25],
              [team_bet_on |-> "DRAW", amount |-> 1000, odds |-> 35],
              [team_bet_on |-> "AWAY", amount |-> 50, odds |-> 25],
              [team_bet_on |-> "AWAY", amount |-> -50, odds |-> 25]}
FundAmounts == {-50, 0, 200, 5000}

----------------------------------------------------------------------------
(* Score parsing: String.split(':').map(Number), and the /[^\d:]/g cleaning *)

DigitChars == {"0", "1", "2", "3", "4", "5", "6", "7", "8", "9"}

DigitVal(c) ==
    CASE c = "0" -> 0 [] c = "1" -> 1 [] c = "2" -> 2 [] c = "3" -> 3
      [] c = "4" -> 4 [] c = "5" -> 5 [] c = "6" -> 6 [] c = "7" -> 7
      [] c = "8" -> 8 [] c = "9" -> 9

\* cleanScore = matchData.score.replace(/[^\d:]/g, '')
CleanScore(s) == SelectSeq(s, LAMBDA c : c \in DigitChars \cup {":"})

\* the parts of s between the colons, as split(':') returns them
RECURSIVE SplitFrom(_, _, _)
SplitFrom(s, i, cur) ==
    IF i > Len(s) THEN <<cur>>
    ELSE IF s[i] = ":" THEN <<cur>> \o SplitFrom(s, i + 1, <<>>)
    ELSE SplitFrom(s, i + 1, Append(cur, s[i]))

Split(s) == SplitFrom(s, 1, <<>>)

RECURSIVE DecimalValue(_)
DecimalValue(p) ==
    IF p = <<>> THEN 0
    ELSE 10 * DecimalValue(SubSeq(p, 1, Len(p) - 1)) + DigitVal(p[Len(p)])

\* the string without its leading and trailing blanks
Trim(part) ==
    LET nb == {i \in 1..Len(part) : part[i] # " "}
    IN  IF nb = {} THEN <<>>
        ELSE SubSeq(part, CHOOSE i \in nb : \A j \in nb : i <= j,
                          CHOOSE i \in nb : \A j \in nb : i >= j)

IsDigits(t) == \A i \in 1..Len(t) : t[i] \in DigitChars

\* Number(part) || 0, in tenths.  Number ignores surrounding blanks, reads the
\* empty string as 0 and digits with at most one '.' as the decimal number
\* they spell; any other string of the samples is NaN, which || turns to 0.
\* A fraction is read to its first digit: no sample has more.
NumberOrZero(part) ==
    LET t == Trim(part)
        dots == {i \in 1..Len(t) : t[i] = "."}
    IN  IF IsDigits(t) THEN 10 * DecimalValue(t)
        ELSE IF Cardinality(dots) = 1
        THEN LET d == CHOOSE i \in dots : TRUE
                 whole == SubSeq(t, 1, d - 1)
                 fraction == SubSeq(t, d + 1, Len(t))
             IN  IF IsDigits(whole) /\ IsDigits(fraction) /\ Len(whole) + Len(fraction) > 0
                 THEN 10 * DecimalValue(whole)
                      + (IF fraction = <<>> THEN 0 ELSE DigitVal(fraction[1]))
                 ELSE 0
        ELSE 0

\* scores[k] || 0 for a part that may be missing
ScoreAt(parts, k) == IF k <= Len(parts) THEN NumberOrZero(parts[k]) ELSE 0

ResultOf(homeScore, awayScore) ==
    IF homeScore > awayScore THEN "HOME_WIN"
    ELSE IF awayScore > homeScore THEN "AWAY_WIN"
    ELSE "DRAW"

----------------------------------------------------------------------------
(* State *)

VARIABLES
    tournament_stages,  \* table tournament_stages: stage_name by stage_id
    teams,              \* table teams: team_name by team_id
    matches,            \* table matches
    betting_odds,       \* table betting_odds
    account,            \* the single row of table account
    bets,               \* table bets
    transactions,       \* table transactions
    savedKeys,          \* the scraper's set of observation keys already processed
    today,              \* the calendar date new Date() yields
    proc                \* per process: the statement it is at and its local variables

dbVars == <<tournament_stages, teams, matches, betting_odds, account, bets, transactions>>
vars == <<tournament_stages, teams, matches, betting_odds, account, bets, transactions,
          savedKeys, today, proc>>

\* the processes that open the database file: node runBetting.js and node index.js
Procs == {"manager", "scraper"}

\* a process that is inside none of the operations on the account
IdleProc == [pc |-> "idle", matchId |-> 0, teamToBetOn |-> "", amount |-> 0, odds |-> 0,
             result |-> Undefined, currentBalance |-> 0, betId |-> 0, pending |-> {},
             totalWins |-> 0, totalLosses |-> 0, totalProfitLoss |-> 0]

\* initializeAccount on an empty database
Init ==
    /\ tournament_stages = <<>>
    /\ teams = <<>>
    /\ matches = <<>>
    /\ betting_odds = <<>>
    /\ account = [balance |-> initialBalance, total_deposits |-> 0, total_withdrawals |-> 0,
                  total_wins |-> 0, total_losses |-> 0, total_profit_loss |-> 0]
    /\ bets = <<>>
    /\ transactions = <<[bet_id |-> NoBet, type |-> "DEPOSIT", amount |-> initialBalance,
                         balance_before |-> 0, balance_after |-> initialBalance]>>
    /\ savedKeys = {}
    /\ today = 1
    /\ proc = [p \in Procs |-> IdleProc]

----------------------------------------------------------------------------
(* Identity resolver: getOrCreateStage, getOrCreateTeam *)

\* the ids of the rows of a name table that hold exactly this name
RowsNamed(table, name) == {i \in 1..Len(table) : table[i] = name}

getOrCreateStage(table, stageName) ==
    IF RowsNamed(table, stageName) # {}
    THEN [id |-> CHOOSE i \in RowsNamed(table, stageName) : TRUE, table |-> table]
    ELSE [id |-> Len(table) + 1, table |-> Append(table, stageName)]

getOrCreateTeam(table, teamName) ==
    IF RowsNamed(table, teamName) # {}
    THEN [id |-> CHOOSE i \in RowsNamed(table, teamName) : TRUE, table |-> table]
    ELSE [id |-> Len(table) + 1, table |-> Append(table, teamName)]

Min(S) == CHOOSE x \in S : \A y \in S : x <= y
Max(S) == CHOOSE x \in S : \A y \in S : x >= y

----------------------------------------------------------------------------
(* Match ledger and odds log: saveMatch, saveOdds *)

\* SELECT match_id FROM matches WHERE stage_id, home_team_id, away_team_id, match_date
MatchesWithKey(table, stageId, homeTeamId, awayTeamId, matchDate) ==
    {i \in 1..Len(table) : /\ table[i].stage_id = stageId
                           /\ table[i].home_team_id = homeTeamId
                           /\ table[i].away_team_id = awayTeamId
                           /\ table[i].match_date = matchDate}

\* SELECT match_id FROM matches WHERE stage_id, home_team_id, away_team_id, status = 'SCHEDULED'
ScheduledFor(table, stageId, homeTeamId, awayTeamId) ==
    {i \in 1..Len(table) : /\ table[i].stage_id = stageId
                           /\ table[i].home_team_id = homeTeamId
                           /\ table[i].away_team_id = awayTeamId
                           /\ table[i].status = "SCHEDULED"}

\* saveMatch with the status taken from the score: a result without a score
\* stores the match as SCHEDULED
saveMatch_statusFromScore(stagesT, teamsT, matchesT, matchData, matchDate) ==
    LET st == getOrCreateStage(stagesT, matchData.tournament_stage)
        ht == getOrCreateTeam(teamsT, matchData.homeTeam)
        at == getOrCreateTeam(ht.table, matchData.awayTeam)
        hasScore == matchData.fullTimeScore # NoScore
        scores == Split(matchData.fullTimeScore)
        homeScore == IF hasScore THEN ScoreAt(scores, 1) ELSE 0
        awayScore == IF hasScore THEN ScoreAt(scores, 2) ELSE 0
        result == IF hasScore THEN ResultOf(homeScore, awayScore) ELSE Null
        status == IF hasScore THEN "COMPLETED" ELSE "SCHEDULED"
        existingMatch == MatchesWithKey(matchesT, st.id, ht.id, at.id, matchDate)
        row == [stage_id |-> st.id, home_team_id |-> ht.id, away_team_id |-> at.id,
                home_score |-> homeScore, away_score |-> awayScore,
                full_time_score |-> matchData.fullTimeScore, match_date |-> matchDate,
                status |-> status, result |-> result]
    IN  IF existingMatch # {}
        THEN LET id == Min(existingMatch)
             IN  [tournament_stages |-> st.table, teams |-> at.table,
                  matches |-> [matchesT EXCEPT ![id] =
                                  [@ EXCEPT !.home_score = homeScore, !.away_score = awayScore,
                                            !.full_time_score = matchData.fullTimeScore,
                                            !.status = status, !.result = result]],
                  matchId |-> id]
        ELSE [tournament_stages |-> st.table, teams |-> at.table,
              matches |-> Append(matchesT, row), matchId |-> Len(matchesT) + 1]

\* saveMatch(matchData) on date matchDate: the tables after the call and the
\* match id it returns.  A query without ORDER BY yields rows in rowid order,
\* so existingMatch[0] is the row with the least match_id.
saveMatch(stagesT, teamsT, matchesT, matchData, matchDate) ==
    LET st == getOrCreateStage(stagesT, matchData.tournament_stage)
        ht == getOrCreateTeam(teamsT, matchData.homeTeam)
        at == getOrCreateTeam(ht.table, matchData.awayTeam)
        hasScore == matchData.fullTimeScore # NoScore
        scores == Split(matchData.fullTimeScore)
        homeScore == IF hasScore THEN ScoreAt(scores, 1) ELSE 0
        awayScore == IF hasScore THEN ScoreAt(scores, 2) ELSE 0
        result == IF hasScore THEN ResultOf(homeScore, awayScore) ELSE Null
        existingMatch == MatchesWithKey(matchesT, st.id, ht.id, at.id, matchDate)
        row == [stage_id |-> st.id, home_team_id |-> ht.id, away_team_id |-> at.id,
                home_score |-> homeScore, away_score |-> awayScore,
                full_time_score |-> matchData.fullTimeScore, match_date |-> matchDate,
                status |-> "COMPLETED", result |-> result]
    IN  IF existingMatch # {}
        THEN LET id == Min(existingMatch)
             IN  [tournament_stages |-> st.table, teams |-> at.table,
                  matches |-> [matchesT EXCEPT ![id] =
                                  [@ EXCEPT !.home_score = homeScore, !.away_score = awayScore,
                                            !.full_time_score = matchData.fullTimeScore,
                                            !.status = "COMPLETED", !.result = result]],
                  matchId |-> id]
        ELSE [tournament_stages |-> st.table, teams |-> at.table,
              matches |-> Append(matchesT, row), matchId |-> Len(matchesT) + 1]

\* saveOdds without its query for a scheduled match: a match row for every odds row
saveOdds_alwaysInserts(stagesT, teamsT, matchesT, oddsT, oddsData, matchDate) ==
    LET st == getOrCreateStage(stagesT, oddsData.tournament_stage)
        ht == getOrCreateTeam(teamsT, oddsData.home_team)
        at == getOrCreateTeam(ht.table, oddsData.away_team)
        row == [stage_id |-> st.id, home_team_id |-> ht.id, away_team_id |-> at.id,
                home_score |-> 0, away_score |-> 0, full_time_score |-> NoScore,
                match_date |-> matchDate, status |-> "SCHEDULED", result |-> Null]
        matchId == Len(matchesT) + 1
    IN  [tournament_stages |-> st.table, teams |-> at.table,
         matches |-> Append(matchesT, row),
         betting_odds |-> Append(oddsT, [match_id |-> matchId, home_odds |-> oddsData.home_odds,
                                         draw_odds |-> oddsData.draw_odds,
                                         away_odds |-> oddsData.away_odds, is_active |-> 1]),
         matchId |-> matchId]

\* saveOdds writing the odds over the snapshot the match already has
saveOdds_replacesSnapshot(stagesT, teamsT, matchesT, oddsT, oddsData, matchDate) ==
    LET st == getOrCreateStage(stagesT, oddsData.tournament_stage)
        ht == getOrCreateTeam(teamsT, oddsData.home_team)
        at == getOrCreateTeam(ht.table, oddsData.away_team)
        match == ScheduledFor(matchesT, st.id, ht.id, at.id)
        row == [stage_id |-> st.id, home_team_id |-> ht.id, away_team_id |-> at.id,
                home_score |-> 0, away_score |-> 0, full_time_score |-> NoScore,
                match_date |-> matchDate, status |-> "SCHEDULED", result |-> Null]
        matchId == IF match = {} THEN Len(matchesT) + 1 ELSE Max(match)
        snapshot == [match_id |-> matchId, home_odds |-> oddsData.home_odds,
                     draw_odds |-> oddsData.draw_odds,
                     away_odds |-> oddsData.away_odds, is_active |-> 1]
        held == {k \in 1..Len(oddsT) : oddsT[k].match_id = matchId}
    IN  [tournament_stages |-> st.table, teams |-> at.table,
         matches |-> IF match = {} THEN Append(matchesT, row) ELSE matchesT,
         betting_odds |-> IF held = {} THEN Append(oddsT, snapshot)
                          ELSE [oddsT EXCEPT ![Max(held)] = snapshot],
         matchId |-> matchId]

\* saveOdds(oddsData) on date matchDate: the tables after the call.  ORDER BY
\* created_at DESC LIMIT 1 is the scheduled row created last, the one with the
\* greatest match_id.
saveOdds(stagesT, teamsT, matchesT, oddsT, oddsData, matchDate) ==
    LET st == getOrCreateStage(stagesT, oddsData.tournament_stage)
        ht == getOrCreateTeam(teamsT, oddsData.home_team)
        at == getOrCreateTeam(ht.table, oddsData.away_team)
        match == ScheduledFor(matchesT, st.id, ht.id, at.id)
        row == [stage_id |-> st.id, home_team_id |-> ht.id, away_team_id |-> at.id,
                home_score |-> 0, away_score |-> 0, full_time_score |-> NoScore,
                match_date |-> matchDate, status |-> "SCHEDULED", result |-> Null]
        matchId == IF match = {} THEN Len(matchesT) + 1 ELSE Max(match)
    IN  [tournament_stages |-> st.table, teams |-> at.table,
         matches |-> IF match = {} THEN Append(matchesT, row) ELSE matchesT,
         betting_odds |-> Append(oddsT, [match_id |-> matchId, home_odds |-> oddsData.home_odds,
                                         draw_odds |-> oddsData.draw_odds,
                                         away_odds |-> oddsData.away_odds, is_active |-> 1]),
         matchId |-> matchId]

\* the resolvers whose statements may raise a storage error
Resolvers == {"stage", "home", "away"}

\* a resolver call that ends in its catch: null, and no row written
Resolved(r, table, fails) == IF fails THEN [id |-> NullId, table |-> table] ELSE r

\* saveMatch when the resolvers of the set failing raise a storage error: the
\* stage is tested before the teams are resolved, both teams are resolved
\* before they are tested, and a throw leads to the catch, which returns null
saveMatchOnError(failing, stagesT, teamsT, matchesT, matchData, matchDate) ==
    LET st == Resolved(getOrCreateStage(stagesT, matchData.tournament_stage), stagesT,
                       "stage" \in failing)
        ht == Resolved(getOrCreateTeam(teamsT, matchData.homeTeam), teamsT, "home" \in failing)
        at == Resolved(getOrCreateTeam(ht.table, matchData.awayTeam), ht.table,
                       "away" \in failing)
    IN  IF st.id = NullId
        THEN [tournament_stages |-> stagesT, teams |-> teamsT, matches |-> matchesT,
              matchId |-> NullId]
        ELSE IF ht.id = NullId \/ at.id = NullId
        THEN [tournament_stages |-> st.table, teams |-> at.table, matches |-> matchesT,
              matchId |-> NullId]
        ELSE saveMatch(stagesT, teamsT, matchesT, matchData, matchDate)

\* saveOdds when the resolvers of the set failing raise a storage error: the
\* ids are not tested.  A comparison with NULL selects no row, and the INSERT
\* binds the NULL to the id columns, which admit it.
saveOddsOnError(failing, stagesT, teamsT, matchesT, oddsT, oddsData, matchDate) ==
    LET st == Resolved(getOrCreateStage(stagesT, oddsData.tournament_stage), stagesT,
                       "stage" \in failing)
        ht == Resolved(getOrCreateTeam(teamsT, oddsData.home_team), teamsT, "home" \in failing)
        at == Resolved(getOrCreateTeam(ht.table, oddsData.away_team), ht.table,
                       "away" \in failing)
        match == IF NullId \in {st.id, ht.id, at.id} THEN {}
                 ELSE ScheduledFor(matchesT, st.id, ht.id, at.id)
        row == [stage_id |-> st.id, home_team_id |-> ht.id, away_team_id |-> at.id,
                home_score |-> 0, away_score |-> 0, full_time_score |-> NoScore,
                match_date |-> matchDate, status |-> "SCHEDULED", result |-> Null]
        matchId == IF match = {} THEN Len(matchesT) + 1 ELSE Max(match)
    IN  [tournament_stages |-> st.table, teams |-> at.table,
         matches |-> IF match = {} THEN Append(matchesT, row) ELSE matchesT,
         betting_odds |-> Append(oddsT, [match_id |-> matchId, home_odds |-> oddsData.home_odds,
                                         draw_odds |-> oddsData.draw_odds,
                                         away_odds |-> oddsData.away_odds, is_active |-> 1]),
         matchId |-> matchId]

----------------------------------------------------------------------------
(* Account, bets and transactions: placeBet, settleBet, addFunds, withdrawFunds *)

\* the three tables these operations read and write, as one value
Ledger == [bets |-> bets, account |-> account, transactions |-> transactions]

\* placeBetAccepted without the comparison of the balance with the amount
placeBetAccepted_anyStake(L, matchesT, matchId, amount) ==
    matchId \in 1..Len(matchesT)

\* the INSERT INTO bets passes the foreign key on match_id (PRAGMA foreign_keys = ON)
\* and currentBalance < amount is false
placeBetAccepted(L, matchesT, matchId, amount) ==
    /\ ~ (L.account.balance < amount)
    /\ matchId \in 1..Len(matchesT)

\* placeBet without its UPDATE of the account
placeBet_noDebit(L, matchesT, matchId, teamToBetOn, amount, odds) ==
    IF ~ placeBetAccepted(L, matchesT, matchId, amount) THEN L
    ELSE [bets |-> Append(L.bets,
                     [match_id |-> matchId, team_bet_on |-> teamToBetOn,
                      odds_taken |-> odds, amount |-> amount,
                      potential_win |-> (amount * odds) \div 10, actual_win |-> 0,
                      status |-> "PENDING", profit_loss |-> 0]),
          account |-> L.account,
          transactions |-> Append(L.transactions,
                     [bet_id |-> Len(L.bets) + 1, type |-> "BET_PLACED", amount |-> amount,
                      balance_before |-> L.account.balance,
                      balance_after |-> L.account.balance - amount])]

placeBet(L, matchesT, matchId, teamToBetOn, amount, odds) ==
    IF ~ placeBetAccepted(L, matchesT, matchId, amount) THEN L
    ELSE LET currentBalance == L.account.balance
             potentialWin == (amount * odds) \div 10
             newBalance == currentBalance - amount
             betId == Len(L.bets) + 1
         IN  [bets |-> Append(L.bets,
                         [match_id |-> matchId, team_bet_on |-> teamToBetOn,
                          odds_taken |-> odds, amount |-> amount,
                          potential_win |-> potentialWin, actual_win |-> 0,
                          status |-> "PENDING", profit_loss |-> 0]),
              account |-> [L.account EXCEPT !.balance = newBalance],
              transactions |-> Append(L.transactions,
                         [bet_id |-> betId, type |-> "BET_PLACED", amount |-> amount,
                          balance_before |-> currentBalance, balance_after |-> newBalance])]

\* determineBetResult with a draw bet on a drawn match falling to the push branch
determineBetResult_pushOnDraw(teamBetOn, matchResult, homeScore, awayScore) ==
    IF matchResult = "DRAW" THEN (IF teamBetOn = "DRAW" THEN "PUSH" ELSE "LOSS")
    ELSE IF teamBetOn = "HOME" THEN (IF matchResult = "HOME_WIN" THEN "WIN" ELSE "LOSS")
    ELSE IF teamBetOn = "AWAY" THEN (IF matchResult = "AWAY_WIN" THEN "WIN" ELSE "LOSS")
    ELSE "LOSS"

determineBetResult(teamBetOn, matchResult, homeScore, awayScore) ==
    IF matchResult = "DRAW" THEN (IF teamBetOn = "DRAW" THEN "WIN" ELSE "LOSS")
    ELSE IF teamBetOn = "HOME" THEN (IF matchResult = "HOME_WIN" THEN "WIN" ELSE "LOSS")
    ELSE IF teamBetOn = "AWAY" THEN (IF matchResult = "AWAY_WIN" THEN "WIN" ELSE "LOSS")
    ELSE "LOSS"

\* the query of settleBet without its b.match_id = ? condition
pendingBets_everyMatch(betsT, matchesT, matchId) ==
    {b \in 1..Len(betsT) : /\ betsT[b].match_id \in 1..Len(matchesT)
                           /\ betsT[b].status = "PENDING"}

\* the query of settleBet without its status = 'PENDING' condition
pendingBets_anyStatus(betsT, matchesT, matchId) ==
    {b \in 1..Len(betsT) : /\ betsT[b].match_id = matchId
                           /\ betsT[b].match_id \in 1..Len(matchesT)}

\* SELECT b.* FROM bets b JOIN matches m ... WHERE b.match_id = ? AND b.status = 'PENDING'
pendingBets(betsT, matchesT, matchId) ==
    {b \in 1..Len(betsT) : /\ betsT[b].match_id = matchId
                           /\ betsT[b].match_id \in 1..Len(matchesT)
                           /\ betsT[b].status = "PENDING"}

\* settleOne with the balance credited with the payout instead of the profit or loss
settleOne_creditsPayout(S, betId, matchesT, result) ==
    LET bet == S.bets[betId]
        m == matchesT[bet.match_id]
        betResult == determineBetResult(bet.team_bet_on, result, m.home_score, m.away_score)
        newStatus == IF betResult = "WIN" THEN "WON"
                     ELSE IF betResult = "LOSS" THEN "LOST" ELSE "PUSH"
        actualWin == IF betResult = "WIN" THEN bet.potential_win
                     ELSE IF betResult = "LOSS" THEN 0 ELSE bet.amount
        profitLoss == IF betResult = "WIN" THEN actualWin - bet.amount
                      ELSE IF betResult = "LOSS" THEN 0 - bet.amount ELSE 0
        balanceBefore == S.currentBalance
    IN  [bets |-> [S.bets EXCEPT ![betId] =
                      [@ EXCEPT !.status = newStatus, !.actual_win = actualWin,
                                !.profit_loss = profitLoss]],
         transactions |-> Append(S.transactions,
                      [bet_id |-> betId, type |-> "BET_SETTLEMENT", amount |-> profitLoss,
                       balance_before |-> balanceBefore,
                       balance_after |-> balanceBefore + profitLoss]),
         currentBalance |-> balanceBefore + actualWin,
         totalWins |-> S.totalWins + (IF betResult = "WIN" THEN 1 ELSE 0),
         totalLosses |-> S.totalLosses + (IF betResult = "LOSS" THEN 1 ELSE 0),
         totalProfitLoss |-> S.totalProfitLoss + profitLoss]

\* settleOne with the stake not taken off the profit of a winning bet
settleOne_profitIsPayout(S, betId, matchesT, result) ==
    LET bet == S.bets[betId]
        m == matchesT[bet.match_id]
        betResult == determineBetResult(bet.team_bet_on, result, m.home_score, m.away_score)
        newStatus == IF betResult = "WIN" THEN "WON"
                     ELSE IF betResult = "LOSS" THEN "LOST" ELSE "PUSH"
        actualWin == IF betResult = "WIN" THEN bet.potential_win
                     ELSE IF betResult = "LOSS" THEN 0 ELSE bet.amount
        profitLoss == IF betResult = "WIN" THEN actualWin
                      ELSE IF betResult = "LOSS" THEN 0 - bet.amount ELSE 0
        balanceBefore == S.currentBalance
    IN  [bets |-> [S.bets EXCEPT ![betId] =
                      [@ EXCEPT !.status = newStatus, !.actual_win = actualWin,
                                !.profit_loss = profitLoss]],
         transactions |-> Append(S.transactions,
                      [bet_id |-> betId, type |-> "BET_SETTLEMENT", amount |-> profitLoss,
                       balance_before |-> balanceBefore,
                       balance_after |-> balanceBefore + profitLoss]),
         currentBalance |-> balanceBefore + profitLoss,
         totalWins |-> S.totalWins + (IF betResult = "WIN" THEN 1 ELSE 0),
         totalLosses |-> S.totalLosses + (IF betResult = "LOSS" THEN 1 ELSE 0),
         totalProfitLoss |-> S.totalProfitLoss + profitLoss]

\* settleOne with UPDATE bets ... WHERE match_id = ? in place of WHERE bet_id = ?
settleOne_updatesWholeMatch(S, betId, matchesT, result) ==
    LET bet == S.bets[betId]
        m == matchesT[bet.match_id]
        betResult == determineBetResult(bet.team_bet_on, result, m.home_score, m.away_score)
        newStatus == IF betResult = "WIN" THEN "WON"
                     ELSE IF betResult = "LOSS" THEN "LOST" ELSE "PUSH"
        actualWin == IF betResult = "WIN" THEN bet.potential_win
                     ELSE IF betResult = "LOSS" THEN 0 ELSE bet.amount
        profitLoss == IF betResult = "WIN" THEN actualWin - bet.amount
                      ELSE IF betResult = "LOSS" THEN 0 - bet.amount ELSE 0
        balanceBefore == S.currentBalance
    IN  [bets |-> [x \in 1..Len(S.bets) |->
                      IF S.bets[x].match_id = bet.match_id
                      THEN [S.bets[x] EXCEPT !.status = newStatus, !.actual_win = actualWin,
                                             !.profit_loss = profitLoss]
                      ELSE S.bets[x]],
         transactions |-> Append(S.transactions,
                      [bet_id |-> betId, type |-> "BET_SETTLEMENT", amount |-> profitLoss,
                       balance_before |-> balanceBefore,
                       balance_after |-> balanceBefore + profitLoss]),
         currentBalance |-> balanceBefore + profitLoss,
         totalWins |-> S.totalWins + (IF betResult = "WIN" THEN 1 ELSE 0),
         totalLosses |-> S.totalLosses + (IF betResult = "LOSS" THEN 1 ELSE 0),
         totalProfitLoss |-> S.totalProfitLoss + profitLoss]

\* one pass of the for loop of settleBet, on running state S
\* settleOne without totalLosses++
settleOne_lossesUncounted(S, betId, matchesT, result) ==
    LET bet == S.bets[betId]
        m == matchesT[bet.match_id]
        betResult == determineBetResult(bet.team_bet_on, result, m.home_score, m.away_score)
        newStatus == IF betResult = "WIN" THEN "WON"
                     ELSE IF betResult = "LOSS" THEN "LOST" ELSE "PUSH"
        actualWin == IF betResult = "WIN" THEN bet.potential_win
                     ELSE IF betResult = "LOSS" THEN 0 ELSE bet.amount
        profitLoss == IF betResult = "WIN" THEN actualWin - bet.amount
                      ELSE IF betResult = "LOSS" THEN 0 - bet.amount ELSE 0
        balanceBefore == S.currentBalance
    IN  [bets |-> [S.bets EXCEPT ![betId] =
                      [@ EXCEPT !.status = newStatus, !.actual_win = actualWin,
                                !.profit_loss = profitLoss]],
         transactions |-> Append(S.transactions,
                      [bet_id |-> betId, type |-> "BET_SETTLEMENT", amount |-> profitLoss,
                       balance_before |-> balanceBefore,
                       balance_after |-> balanceBefore + profitLoss]),
         currentBalance |-> balanceBefore + profitLoss,
         totalWins |-> S.totalWins + (IF betResult = "WIN" THEN 1 ELSE 0),
         totalLosses |-> S.totalLosses,
         totalProfitLoss |-> S.totalProfitLoss + profitLoss]

settleOne(S, betId, matchesT, result) ==
    LET bet == S.bets[betId]
        m == matchesT[bet.match_id]
        betResult == determineBetResult(bet.team_bet_on, result, m.home_score, m.away_score)
        newStatus == IF betResult = "WIN" THEN "WON"
                     ELSE IF betResult = "LOSS" THEN "LOST" ELSE "PUSH"
        actualWin == IF betResult = "WIN" THEN bet.potential_win
                     ELSE IF betResult = "LOSS" THEN 0 ELSE bet.amount
        profitLoss == IF betResult = "WIN" THEN actualWin - bet.amount
                      ELSE IF betResult = "LOSS" THEN 0 - bet.amount ELSE 0
        balanceBefore == S.currentBalance
    IN  [bets |-> [S.bets EXCEPT ![betId] =
                      [@ EXCEPT !.status = newStatus, !.actual_win = actualWin,
                                !.profit_loss = profitLoss]],
         transactions |-> Append(S.transactions,
                      [bet_id |-> betId, type |-> "BET_SETTLEMENT", amount |-> profitLoss,
                       balance_before |-> balanceBefore,
                       balance_after |-> balanceBefore + profitLoss]),
         currentBalance |-> balanceBefore + profitLoss,
         totalWins |-> S.totalWins + (IF betResult = "WIN" THEN 1 ELSE 0),
         totalLosses |-> S.totalLosses + (IF betResult = "LOSS" THEN 1 ELSE 0),
         totalProfitLoss |-> S.totalProfitLoss + profitLoss]

\* the for loop over the pending bets, in rowid order
RECURSIVE settleLoop(_, _, _, _)
settleLoop(S, pending, matchesT, result) ==
    IF pending = {} THEN S
    ELSE LET b == Min(pending)
         IN  settleLoop(settleOne(S, b, matchesT, result), pending \ {b}, matchesT, result)

settleBet(L, matchesT, matchId, result) ==
    LET pending == pendingBets(L.bets, matchesT, matchId)
    IN  IF pending = {} THEN L
        ELSE LET S == settleLoop([bets |-> L.bets, transactions |-> L.transactions,
                                  currentBalance |-> L.account.balance,
                                  totalWins |-> L.account.total_wins,
                                  totalLosses |-> L.account.total_losses,
                                  totalProfitLoss |-> L.account.total_profit_loss],
                                 pending, matchesT, result)
             IN  [bets |-> S.bets,
                  account |-> [L.account EXCEPT !.balance = S.currentBalance,
                                                !.total_wins = S.totalWins,
                                                !.total_losses = S.totalLosses,
                                                !.total_profit_loss = S.totalProfitLoss],
                  transactions |-> S.transactions]

\* the account table as the statements see it: the row with account_id 1,
\* the only one its CHECK (account_id = 1) admits
AccountTable == <<account>>

\* initializeAccount without its test for an existing row: the account is
\* set up again at every start
initializeAccount_setsUpAgain(accountT, transactionsT) ==
    [account |-> <<[balance |-> initialBalance, total_deposits |-> 0,
                    total_withdrawals |-> 0, total_wins |-> 0, total_losses |-> 0,
                    total_profit_loss |-> 0]>>,
     transactions |-> Append(transactionsT,
                [bet_id |-> NoBet, type |-> "DEPOSIT", amount |-> initialBalance,
                 balance_before |-> 0, balance_after |-> initialBalance])]

\* initializeAccount on an account table of no row or one: the row is inserted
\* with the starting balance and the defaults of the schema, and the set-up
\* DEPOSIT is journalled, only when the table is empty
initializeAccount(accountT, transactionsT) ==
    IF Len(accountT) = 0
    THEN [account |-> <<[balance |-> initialBalance, total_deposits |-> 0,
                         total_withdrawals |-> 0, total_wins |-> 0, total_losses |-> 0,
                         total_profit_loss |-> 0]>>,
          transactions |-> Append(transactionsT,
                [bet_id |-> NoBet, type |-> "DEPOSIT", amount |-> initialBalance,
                 balance_before |-> 0, balance_after |-> initialBalance])]
    ELSE [account |-> accountT, transactions |-> transactionsT]

\* addFunds without its test of the amount
addFunds_anyAmount(L, amount) ==
    [bets |-> L.bets,
     account |-> [L.account EXCEPT !.balance = @ + amount, !.total_deposits = @ + amount],
     transactions |-> Append(L.transactions,
                [bet_id |-> NoBet, type |-> "DEPOSIT", amount |-> amount,
                 balance_before |-> L.account.balance,
                 balance_after |-> L.account.balance + amount])]

addFunds(L, amount) ==
    IF amount <= 0 THEN L
    ELSE LET currentBalance == L.account.balance
             newBalance == currentBalance + amount
         IN  [bets |-> L.bets,
              account |-> [L.account EXCEPT !.balance = newBalance,
                                            !.total_deposits = @ + amount],
              transactions |-> Append(L.transactions,
                         [bet_id |-> NoBet, type |-> "DEPOSIT", amount |-> amount,
                          balance_before |-> currentBalance, balance_after |-> newBalance])]

\* withdrawFunds without its comparison of the balance with the amount
withdrawFunds_unchecked(L, amount) ==
    IF amount <= 0 THEN L
    ELSE [bets |-> L.bets,
          account |-> [L.account EXCEPT !.balance = @ - amount,
                                        !.total_withdrawals = @ + amount],
          transactions |-> Append(L.transactions,
                     [bet_id |-> NoBet, type |-> "WITHDRAWAL", amount |-> amount,
                      balance_before |-> L.account.balance,
                      balance_after |-> L.account.balance - amount])]

withdrawFunds(L, amount) ==
    IF amount <= 0 \/ L.account.balance < amount THEN L
    ELSE LET currentBalance == L.account.balance
             newBalance == currentBalance - amount
         IN  [bets |-> L.bets,
              account |-> [L.account EXCEPT !.balance = newBalance,
                                            !.total_withdrawals = @ + amount],
              transactions |-> Append(L.transactions,
                         [bet_id |-> NoBet, type |-> "WITHDRAWAL", amount |-> amount,
                          balance_before |-> currentBalance, balance_after |-> newBalance])]

----------------------------------------------------------------------------
(* Operations *)

MatchIds == 1..MaxMatches

SetLedger(L) ==
    /\ bets' = L.bets
    /\ account' = L.account
    /\ transactions' = L.transactions

WithinBounds(L) ==
    /\ Len(L.bets) <= MaxBets
    /\ Len(L.transactions) <= MaxTx

\* the scraper passes an odds observation to saveOdds
SaveOdds ==
    \E stage \in StageNames, p \in Pairings, o \in OddsObservations :
        LET r == saveOdds(tournament_stages, teams, matches, betting_odds,
                          [tournament_stage |-> stage, home_team |-> p[1], away_team |-> p[2],
                           home_odds |-> o.home_odds, draw_odds |-> o.draw_odds,
                           away_odds |-> o.away_odds], today)
        IN  /\ Len(r.matches) <= MaxMatches
            /\ Len(r.betting_odds) <= MaxOdds
            /\ tournament_stages' = r.tournament_stages
            /\ teams' = r.teams
            /\ matches' = r.matches
            /\ betting_odds' = r.betting_odds
            /\ UNCHANGED <<account, bets, transactions, savedKeys, today, proc>>

\* SaveOddsSeries with the pending bets of the match moved to the new odds
SaveOddsSeries_reprices ==
    \E stage \in StageNames, p \in Pairings, o \in OddsSeries :
        LET r == saveOdds(tournament_stages, teams, matches, betting_odds,
                          [tournament_stage |-> stage, home_team |-> p[1], away_team |-> p[2],
                           home_odds |-> o.home_odds, draw_odds |-> o.draw_odds,
                           away_odds |-> o.away_odds], today)
            quote(side) == CASE side = "HOME" -> o.home_odds [] side = "DRAW" -> o.draw_odds
                             [] side = "AWAY" -> o.away_odds
        IN  /\ Len(r.matches) <= MaxMatches
            /\ Len(r.betting_odds) <= MaxSnapshots
            /\ tournament_stages' = r.tournament_stages
            /\ teams' = r.teams
            /\ matches' = r.matches
            /\ betting_odds' = r.betting_odds
            /\ bets' = [b \in 1..Len(bets) |->
                          IF bets[b].match_id = r.matchId /\ bets[b].status = "PENDING"
                          THEN [bets[b] EXCEPT !.odds_taken = quote(bets[b].team_bet_on),
                                               !.potential_win =
                                                   (bets[b].amount * quote(bets[b].team_bet_on)) \div 10]
                          ELSE bets[b]]
            /\ UNCHANGED <<account, transactions, savedKeys, today, proc>>

\* the scraper passes odds to saveOdds again and again as the page changes them
SaveOddsSeries ==
    \E stage \in StageNames, p \in Pairings, o \in OddsSeries :
        LET r == saveOdds(tournament_stages, teams, matches, betting_odds,
                          [tournament_stage |-> stage, home_team |-> p[1], away_team |-> p[2],
                           home_odds |-> o.home_odds, draw_odds |-> o.draw_odds,
                           away_odds |-> o.away_odds], today)
        IN  /\ Len(r.matches) <= MaxMatches
            /\ Len(r.betting_odds) <= MaxSnapshots
            /\ tournament_stages' = r.tournament_stages
            /\ teams' = r.teams
            /\ matches' = r.matches
            /\ betting_odds' = r.betting_odds
            /\ UNCHANGED <<account, bets, transactions, savedKeys, today, proc>>

\* saveMatch called with a match result
SaveMatch ==
    \E stage \in StageNames, p \in Pairings, score \in RawScores \cup {NoScore} :
        LET r == saveMatch(tournament_stages, teams, matches,
                           [tournament_stage |-> stage, homeTeam |-> p[1], awayTeam |-> p[2],
                            fullTimeScore |-> score], today)
        IN  /\ Len(r.matches) <= MaxMatches
            /\ tournament_stages' = r.tournament_stages
            /\ teams' = r.teams
            /\ matches' = r.matches
            /\ UNCHANGED <<betting_odds, account, bets, transactions, savedKeys, today, proc>>

\* processMatch without its test of savedKeys: every observation is saved
ProcessMatch_noDedup ==
    \E stage \in StageNames, p \in Pairings, score \in RawScores :
        LET cleanScore == CleanScore(score)
            key == <<stage, p[1], p[2], cleanScore>>
            r == saveMatch(tournament_stages, teams, matches,
                           [tournament_stage |-> stage, homeTeam |-> p[1], awayTeam |-> p[2],
                            fullTimeScore |-> cleanScore], today)
            L == settleBet(Ledger, r.matches, r.matchId, Undefined)
        IN  IF \E i \in 1..Len(cleanScore) : cleanScore[i] = ":"
            THEN /\ Len(r.matches) <= MaxMatches
                 /\ WithinBounds(L)
                 /\ savedKeys' = savedKeys \cup {key}
                 /\ tournament_stages' = r.tournament_stages
                 /\ teams' = r.teams
                 /\ matches' = r.matches
                 /\ SetLedger(L)
                 /\ UNCHANGED <<betting_odds, today, proc>>
            ELSE UNCHANGED vars

\* the scraper's ingestion step for one observed match: processMatch
ProcessMatch ==
    \E stage \in StageNames, p \in Pairings, score \in RawScores :
        LET cleanScore == CleanScore(score)
            key == <<stage, p[1], p[2], cleanScore>>
            r == saveMatch(tournament_stages, teams, matches,
                           [tournament_stage |-> stage, homeTeam |-> p[1], awayTeam |-> p[2],
                            fullTimeScore |-> cleanScore], today)
            L == settleBet(Ledger, r.matches, r.matchId, Undefined)
        IN  IF (\E i \in 1..Len(cleanScore) : cleanScore[i] = ":") /\ key \notin savedKeys
            THEN /\ Len(r.matches) <= MaxMatches
                 /\ WithinBounds(L)
                 /\ savedKeys' = savedKeys \cup {key}
                 /\ tournament_stages' = r.tournament_stages
                 /\ teams' = r.teams
                 /\ matches' = r.matches
                 /\ SetLedger(L)
                 /\ UNCHANGED <<betting_odds, today, proc>>
            ELSE UNCHANGED vars

PlaceBet ==
    \E matchId \in MatchIds, order \in BetOrders :
        LET L == placeBet(Ledger, matches, matchId, order.team_bet_on, order.amount, order.odds)
        IN  /\ WithinBounds(L)
            /\ SetLedger(L)
            /\ UNCHANGED <<tournament_stages, teams, matches, betting_odds, savedKeys, today, proc>>

SettleBet ==
    \E matchId \in MatchIds, result \in Results :
        LET L == settleBet(Ledger, matches, matchId, result)
        IN  /\ WithinBounds(L)
            /\ SetLedger(L)
            /\ UNCHANGED <<tournament_stages, teams, matches, betting_odds, savedKeys, today, proc>>

AddFunds ==
    \E amount \in FundAmounts :
        LET L == addFunds(Ledger, amount)
        IN  /\ WithinBounds(L)
            /\ SetLedger(L)
            /\ UNCHANGED <<tournament_stages, teams, matches, betting_odds, savedKeys, today, proc>>

WithdrawFunds ==
    \E amount \in FundAmounts :
        LET L == withdrawFunds(Ledger, amount)
        IN  /\ WithinBounds(L)
            /\ SetLedger(L)
            /\ UNCHANGED <<tournament_stages, teams, matches, betting_odds, savedKeys, today, proc>>

\* midnight passes: new Date() yields the next calendar date
\* a process starts on the existing database file: initialize() runs
\* createTables, which keeps the tables, and initializeAccount
InitializeAccount ==
    LET r == initializeAccount(AccountTable, transactions)
    IN  /\ Len(r.transactions) <= MaxTx
        /\ account' = r.account[1]
        /\ transactions' = r.transactions
        /\ UNCHANGED <<tournament_stages, teams, matches, betting_odds, bets, savedKeys,
                       today, proc>>

\* saveMatch called with the names in one of their spellings
SaveMatchSpelled ==
    \E stage \in StageSpellings, p \in PairingSpellings :
        LET r == saveMatch(tournament_stages, teams, matches,
                           [tournament_stage |-> stage, homeTeam |-> p[1], awayTeam |-> p[2],
                            fullTimeScore |-> <<"2", ":", "1">>], today)
        IN  /\ Len(r.matches) <= MaxMatches
            /\ tournament_stages' = r.tournament_stages
            /\ teams' = r.teams
            /\ matches' = r.matches
            /\ UNCHANGED <<betting_odds, account, bets, transactions, savedKeys, today, proc>>

\* saveOdds called with the names in one of their spellings
SaveOddsSpelled ==
    \E stage \in StageSpellings, p \in PairingSpellings, o \in OddsObservations :
        LET r == saveOdds(tournament_stages, teams, matches, betting_odds,
                          [tournament_stage |-> stage, home_team |-> p[1], away_team |-> p[2],
                           home_odds |-> o.home_odds, draw_odds |-> o.draw_odds,
                           away_odds |-> o.away_odds], today)
        IN  /\ Len(r.matches) <= MaxMatches
            /\ Len(r.betting_odds) <= MaxOdds
            /\ tournament_stages' = r.tournament_stages
            /\ teams' = r.teams
            /\ matches' = r.matches
            /\ betting_odds' = r.betting_odds
            /\ UNCHANGED <<account, bets, transactions, savedKeys, today, proc>>

\* saveMatch while storage errors may occur in the resolvers
SaveMatchOnError ==
    \E stage \in StageNames, p \in Pairings, score \in RawScores, failing \in SUBSET Resolvers :
        LET r == saveMatchOnError(failing, tournament_stages, teams, matches,
                           [tournament_stage |-> stage, homeTeam |-> p[1], awayTeam |-> p[2],
                            fullTimeScore |-> score], today)
        IN  /\ Len(r.matches) <= MaxMatches
            /\ tournament_stages' = r.tournament_stages
            /\ teams' = r.teams
            /\ matches' = r.matches
            /\ UNCHANGED <<betting_odds, account, bets, transactions, savedKeys, today, proc>>

\* saveOdds while storage errors may occur in the resolvers
SaveOddsOnError ==
    \E stage \in StageNames, p \in Pairings, o \in OddsObservations, failing \in SUBSET Resolvers :
        LET r == saveOddsOnError(failing, tournament_stages, teams, matches, betting_odds,
                          [tournament_stage |-> stage, home_team |-> p[1], away_team |-> p[2],
                           home_odds |-> o.home_odds, draw_odds |-> o.draw_odds,
                           away_odds |-> o.away_odds], today)
        IN  /\ Len(r.matches) <= MaxMatches
            /\ Len(r.betting_odds) <= MaxOdds
            /\ tournament_stages' = r.tournament_stages
            /\ teams' = r.teams
            /\ matches' = r.matches
            /\ betting_odds' = r.betting_odds
            /\ UNCHANGED <<account, bets, transactions, savedKeys, today, proc>>

\* saveMatch called with a score string of any shape
SaveMatchScores ==
    \E stage \in StageNames, p \in Pairings, score \in ScoreSamples :
        LET r == saveMatch(tournament_stages, teams, matches,
                           [tournament_stage |-> stage, homeTeam |-> p[1], awayTeam |-> p[2],
                            fullTimeScore |-> score], today)
        IN  /\ Len(r.matches) <= MaxMatches
            /\ tournament_stages' = r.tournament_stages
            /\ teams' = r.teams
            /\ matches' = r.matches
            /\ UNCHANGED <<betting_odds, account, bets, transactions, savedKeys, today, proc>>

NextDay ==
    /\ today < MaxDay
    /\ today' = today + 1
    /\ UNCHANGED <<dbVars, savedKeys, proc>>

\* ingestion and the bet engine on one day
Next ==
    \/ SaveOdds
    \/ ProcessMatch
    \/ PlaceBet
    \/ SettleBet

Spec == Init /\ [][Next]_vars

\* the program as it runs: odds and results are ingested over several days
\* and bets are placed; settleBet is called by processMatch alone
NextPipeline ==
    \/ SaveOdds
    \/ PlaceBet
    \/ ProcessMatch
    \/ NextDay

SpecPipeline == Init /\ [][NextPipeline]_vars

\* the operations that write the account and the transactions
NextLedger ==
    \/ SaveOdds
    \/ PlaceBet
    \/ SettleBet
    \/ AddFunds
    \/ WithdrawFunds

SpecLedger == Init /\ [][NextLedger]_vars

\* the operations that never settle a bet
NextFunds ==
    \/ SaveOdds
    \/ PlaceBet
    \/ AddFunds
    \/ WithdrawFunds

SpecFunds == Init /\ [][NextFunds]_vars

\* ingestion alone, over several days
NextIngest ==
    \/ SaveOdds
    \/ ProcessMatch
    \/ SaveMatch
    \/ NextDay

SpecIngest == Init /\ [][NextIngest]_vars

\* odds that keep arriving and results, over several days
NextOdds ==
    \/ SaveOddsSeries
    \/ SaveMatch
    \/ ProcessMatch
    \/ NextDay

SpecOdds == Init /\ [][NextOdds]_vars

\* results and odds whose names arrive in several spellings
NextSpellings ==
    \/ SaveMatchSpelled
    \/ SaveOddsSpelled
    \/ NextDay

SpecSpellings == Init /\ [][NextSpellings]_vars

\* the account operations, with the processes started again in between
NextRestart ==
    \/ SaveOdds
    \/ PlaceBet
    \/ AddFunds
    \/ WithdrawFunds
    \/ InitializeAccount

SpecRestart == Init /\ [][NextRestart]_vars

\* ingestion while the resolvers may fail
NextErrors ==
    \/ SaveMatchOnError
    \/ SaveOddsOnError
    \/ NextDay

SpecErrors == Init /\ [][NextErrors]_vars

\* results with scores of any shape, over several days
NextScores ==
    \/ SaveMatchScores
    \/ SaveOdds
    \/ NextDay

SpecScores == Init /\ [][NextScores]_vars

\* the first odds, and the odds that arrive once a bet has been placed
SaveOddsOnBets ==
    /\ betting_odds = <<>> \/ bets # <<>>
    /\ SaveOddsSeries

\* odds that keep arriving after placements, with settlements in between
NextFreeze ==
    \/ SaveOddsOnBets
    \/ PlaceBet
    \/ SettleBet

SpecFreeze == Init /\ [][NextFreeze]_vars

----------------------------------------------------------------------------
(* The operations statement by statement.  Every query and runQuery is its  *)
(* own autocommitted statement: the sources open no transaction.  A step    *)
(* is one statement together with the local computation that leads to it.   *)

\* the amounts the menu passes on to the database: parseFloat(...) > 0
StepAmounts == {a \in FundAmounts : a > 0}

\* the result argument of the settleBet calls: the scraper passes none
StepResults == {Undefined, "HOME_WIN"}

\* rows an operation in progress has still to append
TxOwed(p) ==
    IF proc[p].pc \in {"placeBet_insert", "placeBet_update", "placeBet_journal",
                       "addFunds_update", "addFunds_journal",
                       "withdrawFunds_update", "withdrawFunds_journal"} THEN 1
    ELSE Cardinality(proc[p].pending)

BetsOwed(p) == IF proc[p].pc = "placeBet_insert" THEN 1 ELSE 0

\* the tables have room for what the operations in progress and a new one append
RoomFor(newBets, newTx) ==
    /\ Len(bets) + BetsOwed("manager") + BetsOwed("scraper") + newBets <= MaxBets
    /\ Len(transactions) + TxOwed("manager") + TxOwed("scraper") + newTx <= MaxTx

Goto(p, rec) == proc' = [proc EXCEPT ![p] = rec]

\* placeBet: SELECT * FROM account, and the comparison of the balance with the amount
PlaceBetRead(p) ==
    /\ proc[p].pc = "idle"
    /\ \E matchId \in MatchIds, order \in BetOrders :
          /\ ~ (account.balance < order.amount)
          /\ RoomFor(1, 1)
          /\ Goto(p, [IdleProc EXCEPT !.pc = "placeBet_insert", !.matchId = matchId,
                                      !.teamToBetOn = order.team_bet_on,
                                      !.amount = order.amount, !.odds = order.odds,
                                      !.currentBalance = account.balance])
    /\ UNCHANGED <<dbVars, savedKeys, today>>

\* placeBet: INSERT INTO bets; a match_id that is in no row of matches fails
\* the foreign key, and the catch block returns false
PlaceBetInsert(p) ==
    /\ proc[p].pc = "placeBet_insert"
    /\ IF proc[p].matchId \in 1..Len(matches)
       THEN /\ bets' = Append(bets,
                       [match_id |-> proc[p].matchId, team_bet_on |-> proc[p].teamToBetOn,
                        odds_taken |-> proc[p].odds, amount |-> proc[p].amount,
                        potential_win |-> (proc[p].amount * proc[p].odds) \div 10,
                        actual_win |-> 0, status |-> "PENDING", profit_loss |-> 0])
            /\ Goto(p, [proc[p] EXCEPT !.pc = "placeBet_update", !.betId = Len(bets) + 1])
       ELSE /\ bets' = bets
            /\ Goto(p, IdleProc)
    /\ UNCHANGED <<tournament_stages, teams, matches, betting_odds, account, transactions,
                   savedKeys, today>>

\* placeBet: UPDATE account SET balance = currentBalance - amount
PlaceBetUpdate(p) ==
    /\ proc[p].pc = "placeBet_update"
    /\ account' = [account EXCEPT !.balance = proc[p].currentBalance - proc[p].amount]
    /\ Goto(p, [proc[p] EXCEPT !.pc = "placeBet_journal"])
    /\ UNCHANGED <<tournament_stages, teams, matches, betting_odds, bets, transactions,
                   savedKeys, today>>

\* placeBet: INSERT INTO transactions ... 'BET_PLACED'
PlaceBetJournal(p) ==
    /\ proc[p].pc = "placeBet_journal"
    /\ transactions' = Append(transactions,
                          [bet_id |-> proc[p].betId, type |-> "BET_PLACED",
                           amount |-> proc[p].amount,
                           balance_before |-> proc[p].currentBalance,
                           balance_after |-> proc[p].currentBalance - proc[p].amount])
    /\ Goto(p, IdleProc)
    /\ UNCHANGED <<tournament_stages, teams, matches, betting_odds, account, bets,
                   savedKeys, today>>

\* addFunds in the betting manager: SELECT balance FROM account
AddFundsRead(p) ==
    /\ p = "manager"
    /\ proc[p].pc = "idle"
    /\ \E amount \in StepAmounts :
          /\ RoomFor(0, 1)
          /\ Goto(p, [IdleProc EXCEPT !.pc = "addFunds_update", !.amount = amount,
                                      !.currentBalance = account.balance])
    /\ UNCHANGED <<dbVars, savedKeys, today>>

\* addFunds: UPDATE account SET balance = ?, total_deposits = total_deposits + ?
AddFundsUpdate(p) ==
    /\ proc[p].pc = "addFunds_update"
    /\ account' = [account EXCEPT !.balance = proc[p].currentBalance + proc[p].amount,
                                  !.total_deposits = @ + proc[p].amount]
    /\ Goto(p, [proc[p] EXCEPT !.pc = "addFunds_journal"])
    /\ UNCHANGED <<tournament_stages, teams, matches, betting_odds, bets, transactions,
                   savedKeys, today>>

\* addFunds: INSERT INTO transactions ... 'DEPOSIT'
AddFundsJournal(p) ==
    /\ proc[p].pc = "addFunds_journal"
    /\ transactions' = Append(transactions,
                          [bet_id |-> NoBet, type |-> "DEPOSIT", amount |-> proc[p].amount,
                           balance_before |-> proc[p].currentBalance,
                           balance_after |-> proc[p].currentBalance + proc[p].amount])
    /\ Goto(p, IdleProc)
    /\ UNCHANGED <<tournament_stages, teams, matches, betting_odds, account, bets,
                   savedKeys, today>>

\* withdrawFunds in the betting manager: SELECT balance FROM account, and the
\* comparison of the balance with the amount
WithdrawFundsRead(p) ==
    /\ p = "manager"
    /\ proc[p].pc = "idle"
    /\ \E amount \in StepAmounts :
          /\ ~ (account.balance < amount)
          /\ RoomFor(0, 1)
          /\ Goto(p, [IdleProc EXCEPT !.pc = "withdrawFunds_update", !.amount = amount,
                                      !.currentBalance = account.balance])
    /\ UNCHANGED <<dbVars, savedKeys, today>>

\* withdrawFunds: UPDATE account SET balance = ?, total_withdrawals = total_withdrawals + ?
WithdrawFundsUpdate(p) ==
    /\ proc[p].pc = "withdrawFunds_update"
    /\ account' = [account EXCEPT !.balance = proc[p].currentBalance - proc[p].amount,
                                  !.total_withdrawals = @ + proc[p].amount]
    /\ Goto(p, [proc[p] EXCEPT !.pc = "withdrawFunds_journal"])
    /\ UNCHANGED <<tournament_stages, teams, matches, betting_odds, bets, transactions,
                   savedKeys, today>>

\* withdrawFunds: INSERT INTO transactions ... 'WITHDRAWAL'
WithdrawFundsJournal(p) ==
    /\ proc[p].pc = "withdrawFunds_journal"
    /\ transactions' = Append(transactions,
                          [bet_id |-> NoBet, type |-> "WITHDRAWAL", amount |-> proc[p].amount,
                           balance_before |-> proc[p].currentBalance,
                           balance_after |-> proc[p].currentBalance - proc[p].amount])
    /\ Goto(p, IdleProc)
    /\ UNCHANGED <<tournament_stages, teams, matches, betting_odds, account, bets,
                   savedKeys, today>>

\* settleBet: the SELECT of the PENDING bets of the match; the call returns
\* when there is none
SettleBetSelect(p) ==
    /\ proc[p].pc = "idle"
    /\ \E matchId \in MatchIds, result \in StepResults :
          /\ pendingBets(bets, matches, matchId) # {}
          /\ RoomFor(0, Cardinality(pendingBets(bets, matches, matchId)))
          /\ Goto(p, [IdleProc EXCEPT !.pc = "settleBet_account", !.matchId = matchId,
                                      !.result = result,
                                      !.pending = pendingBets(bets, matches, matchId)])
    /\ UNCHANGED <<dbVars, savedKeys, today>>

\* settleBet: SELECT * FROM account
SettleBetAccount(p) ==
    /\ proc[p].pc = "settleBet_account"
    /\ Goto(p, [proc[p] EXCEPT !.pc = "settleBet_bet",
                               !.currentBalance = account.balance,
                               !.totalWins = account.total_wins,
                               !.totalLosses = account.total_losses,
                               !.totalProfitLoss = account.total_profit_loss])
    /\ UNCHANGED <<dbVars, savedKeys, today>>

\* the running state of the loop of settleBet as process p holds it
Running(p) ==
    [bets |-> bets, transactions |-> transactions,
     currentBalance |-> proc[p].currentBalance, totalWins |-> proc[p].totalWins,
     totalLosses |-> proc[p].totalLosses, totalProfitLoss |-> proc[p].totalProfitLoss]

\* settleBet, in the loop: UPDATE bets ... WHERE bet_id = ? for the next bet selected
SettleBetUpdateBet(p) ==
    /\ proc[p].pc = "settleBet_bet"
    /\ LET b == Min(proc[p].pending)
       IN  /\ bets' = settleOne(Running(p), b, matches, proc[p].result).bets
           /\ Goto(p, [proc[p] EXCEPT !.pc = "settleBet_journal", !.betId = b])
    /\ UNCHANGED <<tournament_stages, teams, matches, betting_odds, account, transactions,
                   savedKeys, today>>

\* settleBet, in the loop: INSERT INTO transactions ... 'BET_SETTLEMENT'; the
\* bet row holds what the UPDATE has just written, and the outcome is computed
\* from columns the UPDATE leaves alone
SettleBetJournal(p) ==
    /\ proc[p].pc = "settleBet_journal"
    /\ LET S == settleOne(Running(p), proc[p].betId, matches, proc[p].result)
           rest == proc[p].pending \ {proc[p].betId}
       IN  /\ transactions' = S.transactions
           /\ Goto(p, [proc[p] EXCEPT
                          !.pc = IF rest = {} THEN "settleBet_summary" ELSE "settleBet_bet",
                          !.pending = rest, !.currentBalance = S.currentBalance,
                          !.totalWins = S.totalWins, !.totalLosses = S.totalLosses,
                          !.totalProfitLoss = S.totalProfitLoss])
    /\ UNCHANGED <<tournament_stages, teams, matches, betting_odds, account, bets,
                   savedKeys, today>>

\* settleBet, after the loop: UPDATE account SET balance, total_wins, total_losses,
\* total_profit_loss
SettleBetSummary(p) ==
    /\ proc[p].pc = "settleBet_summary"
    /\ account' = [account EXCEPT !.balance = proc[p].currentBalance,
                                  !.total_wins = proc[p].totalWins,
                                  !.total_losses = proc[p].totalLosses,
                                  !.total_profit_loss = proc[p].totalProfitLoss]
    /\ Goto(p, IdleProc)
    /\ UNCHANGED <<tournament_stages, teams, matches, betting_odds, bets, transactions,
                   savedKeys, today>>

\* the next statement of an operation fails, or the process stops before it:
\* the catch block returns, or the process is started again, and what the
\* earlier statements have committed stays
Interrupt(p) ==
    /\ proc[p].pc # "idle"
    /\ Goto(p, IdleProc)
    /\ UNCHANGED <<dbVars, savedKeys, today>>

\* the statements of the two processes in every order
NextSteps ==
    \/ SaveOdds
    \/ \E p \in Procs : PlaceBetRead(p)
    \/ \E p \in Procs : PlaceBetInsert(p)
    \/ \E p \in Procs : PlaceBetUpdate(p)
    \/ \E p \in Procs : PlaceBetJournal(p)
    \/ \E p \in Procs : AddFundsRead(p)
    \/ \E p \in Procs : AddFundsUpdate(p)
    \/ \E p \in Procs : AddFundsJournal(p)
    \/ \E p \in Procs : WithdrawFundsRead(p)
    \/ \E p \in Procs : WithdrawFundsUpdate(p)
    \/ \E p \in Procs : WithdrawFundsJournal(p)
    \/ SettleBetSelect("scraper")
    \/ \E p \in Procs : SettleBetAccount(p)
    \/ \E p \in Procs : SettleBetUpdateBet(p)
    \/ \E p \in Procs : SettleBetJournal(p)
    \/ \E p \in Procs : SettleBetSummary(p)

SpecSteps == Init /\ [][NextSteps]_vars

\* placements and settlements of one process, with interruptions
NextCrash ==
    \/ SaveOdds
    \/ PlaceBetRead("scraper")
    \/ PlaceBetInsert("scraper")
    \/ PlaceBetUpdate("scraper")
    \/ PlaceBetJournal("scraper")
    \/ SettleBetSelect("scraper")
    \/ SettleBetAccount("scraper")
    \/ SettleBetUpdateBet("scraper")
    \/ SettleBetJournal("scraper")
    \/ SettleBetSummary("scraper")
    \/ Interrupt("scraper")

SpecCrash == Init /\ [][NextCrash]_vars

\* a placement that runs while no settlement is under way
PlaceBetBetween ==
    /\ \A p \in Procs : proc[p].pc = "idle"
    /\ PlaceBet

\* executions of settleBet, each in a process of its own, that overlap one
\* another and nothing else
NextSettle ==
    \/ SaveOdds
    \/ PlaceBetBetween
    \/ \E p \in Procs : SettleBetSelect(p)
    \/ \E p \in Procs : SettleBetAccount(p)
    \/ \E p \in Procs : SettleBetUpdateBet(p)
    \/ \E p \in Procs : SettleBetJournal(p)
    \/ \E p \in Procs : SettleBetSummary(p)

SpecSettle == Init /\ [][NextSettle]_vars

----------------------------------------------------------------------------
(* Properties *)

\* the outcome table: the sides that win for each match result
WinningPairs == {<<"HOME", "HOME_WIN">>, <<"DRAW", "DRAW">>, <<"AWAY", "AWAY_WIN">>}

TableStatus(side, result) == IF <<side, result>> \in WinningPairs THEN "WON" ELSE "LOST"

\* the effect of one journal row on the balance
EffectOf(t) ==
    CASE t.type = "DEPOSIT" -> t.amount
      [] t.type = "WITHDRAWAL" -> 0 - t.amount
      [] t.type = "BET_PLACED" -> 0 - t.amount
      [] t.type = "BET_SETTLEMENT" -> t.amount

RECURSIVE Replay(_, _)
Replay(balance, rows) ==
    IF rows = <<>> THEN balance ELSE Replay(balance + EffectOf(Head(rows)), Tail(rows))

RECURSIVE SumProfitLoss(_, _)
SumProfitLoss(betsT, ids) ==
    IF ids = {} THEN 0
    ELSE LET b == CHOOSE x \in ids : TRUE
         IN  betsT[b].profit_loss + SumProfitLoss(betsT, ids \ {b})

\* the bets a step takes out of PENDING
SettledByStep == {b \in 1..Len(bets) : bets[b].status = "PENDING" /\ bets'[b].status # "PENDING"}

TxTypes == {transactions[t].type : t \in 1..Len(transactions)}

\* C1: replaying the journal rows that follow the account set-up row, in
\* insertion order from the initial balance, yields account.balance
C1_LedgerReplay == Replay(initialBalance, Tail(transactions)) = account.balance

\* a deposit, a withdrawal, a placement and a settlement have all been journalled
C1_Witness ==
    /\ {"WITHDRAWAL", "BET_PLACED", "BET_SETTLEMENT"} \subseteq TxTypes
    /\ \E t \in 2..Len(transactions) : transactions[t].type = "DEPOSIT"

\* C2: when a bet placed at balance B with stake s is settled right after its
\* placement by settleBet with a result that loses for its side, it is LOST
\* with actual_win 0 and profit_loss -s, total_losses grows by 1 and
\* account.balance is B - s
C2_LosingBetLeavesBalance ==
    [][\A b \in SettledByStep :
          (/\ SettledByStep = {b}
           /\ savedKeys' = savedKeys
           /\ \E r \in Results :
                 /\ <<bets[b].team_bet_on, r>> \notin WinningPairs
                 /\ bets' = settleBet(Ledger, matches, bets[b].match_id, r).bets
           /\ transactions[Len(transactions)].type = "BET_PLACED"
           /\ transactions[Len(transactions)].bet_id = b)
          => /\ bets'[b].status = "LOST"
             /\ bets'[b].actual_win = 0
             /\ bets'[b].profit_loss = 0 - bets[b].amount
             /\ account'.total_losses = account.total_losses + 1
             /\ account'.balance =
                   transactions[Len(transactions)].balance_before - bets[b].amount]_vars

\* C3: the ingestion step that saves a match result settles every bet pending
\* on that match as the outcome table says for the result stored on the match
C3_IngestionSettlesByTable ==
    [][savedKeys' # savedKeys =>
          \A b \in 1..Len(bets) :
              (/\ bets[b].status = "PENDING"
               /\ \/ bets[b].match_id > Len(matches)
                  \/ matches'[bets[b].match_id] # matches[bets[b].match_id])
              => bets'[b].status =
                     TableStatus(bets[b].team_bet_on, matches'[bets[b].match_id].result)]_vars

C5_BalanceNeverNegative == account.balance >= 0

\* the whole balance is staked, so every further stake or withdrawal is refused
C5_Witness ==
    /\ account.balance = 0
    /\ \E b \in 1..Len(bets) : bets[b].amount = initialBalance

\* C6: a settlement marks a winning bet WON with actual_win = stake * odds_taken
\* and profit_loss = actual_win - stake, adds the bets it won to total_wins and
\* adds the profit_loss of the bets it settled to account.balance
C6_WinningBetCredited ==
    [][SettledByStep # {} =>
          /\ \A b \in SettledByStep :
                bets'[b].status = "WON" =>
                    /\ bets'[b].actual_win = bets[b].potential_win
                    /\ bets'[b].actual_win * 10 = bets[b].amount * bets[b].odds_taken
                    /\ bets'[b].profit_loss = bets'[b].actual_win - bets[b].amount
          /\ account'.total_wins = account.total_wins
                + Cardinality({b \in SettledByStep : bets'[b].status = "WON"})
          /\ account'.balance = account.balance + SumProfitLoss(bets', SettledByStep)]_vars

\* the bet of 50 at odds 2.5 placed at balance 1000 has won: balance 1025
C6_Witness ==
    /\ Len(bets) = 1
    /\ bets[1].status = "WON"
    /\ bets[1].actual_win = 125
    /\ bets[1].profit_loss = 75
    /\ account.total_wins = 1
    /\ account.balance = 1025

\* C7: a successful placeBet adds exactly one bet, PENDING, with the stake and
\* odds asked for and potential_win = stake * odds, takes the stake off the
\* balance, which covered it, and appends one BET_PLACED row for the new bet
\* with the balances before and after
C7_PlaceBetEffect ==
    [][Len(bets') > Len(bets) =>
          \E m \in 1..Len(matches), order \in BetOrders :
              /\ account.balance >= order.amount
              /\ bets' = Append(bets,
                    [match_id |-> m, team_bet_on |-> order.team_bet_on,
                     odds_taken |-> order.odds, amount |-> order.amount,
                     potential_win |-> (order.amount * order.odds) \div 10,
                     actual_win |-> 0, status |-> "PENDING", profit_loss |-> 0])
              /\ account' = [account EXCEPT !.balance = account.balance - order.amount]
              /\ transactions' = Append(transactions,
                    [bet_id |-> Len(bets) + 1, type |-> "BET_PLACED", amount |-> order.amount,
                     balance_before |-> account.balance,
                     balance_after |-> account.balance - order.amount])]_vars

\* the bet of 50 at odds 2.5 on a scheduled match at balance 1000: balance 950
C7_Witness ==
    /\ Len(bets) = 1
    /\ bets[1].status = "PENDING"
    /\ bets[1].potential_win = 125
    /\ matches[bets[1].match_id].status = "SCHEDULED"
    /\ account.balance = 950
    /\ transactions[Len(transactions)].type = "BET_PLACED"

\* C8: settleBet on a match without pending bets changes no bet, account or
\* transaction row, and a second settleBet for the same match changes nothing
\* that the first has left
C8_SettleIdempotent ==
    \A m \in MatchIds, r \in Results \cup {Undefined} :
        LET once == settleBet(Ledger, matches, m, r)
        IN  /\ pendingBets(bets, matches, m) = {} => once = Ledger
            /\ settleBet(once, matches, m, r) = once

\* a match whose bets have all been settled
C8_Witness ==
    \E m \in 1..Len(matches) :
        /\ pendingBets(bets, matches, m) = {}
        /\ \E b \in 1..Len(bets) : bets[b].match_id = m

\* C9: a bet that is WON, LOST or PUSH keeps its status, actual_win and
\* profit_loss in every later step
C9_SettledIsTerminal ==
    [][\A b \in 1..Len(bets) :
          bets[b].status # "PENDING" =>
              /\ b <= Len(bets')
              /\ bets'[b].status = bets[b].status
              /\ bets'[b].actual_win = bets[b].actual_win
              /\ bets'[b].profit_loss = bets[b].profit_loss]_vars

\* a settled bet on a match that was observed again with another score, next
\* to a bet placed later
C9_Witness ==
    /\ Len(bets) = 2
    /\ bets[1].status # "PENDING"
    /\ bets[2].status = "PENDING"
    /\ Cardinality(savedKeys) = 2

\* C10: no two rows of matches have the same stage, home team, away team and date
C10_OneRowPerKey ==
    \A i, j \in 1..Len(matches) :
        (/\ matches[i].stage_id = matches[j].stage_id
         /\ matches[i].home_team_id = matches[j].home_team_id
         /\ matches[i].away_team_id = matches[j].away_team_id
         /\ matches[i].match_date = matches[j].match_date) => i = j

\* a call of placeBet that is rejected leaves bets, account and transactions as they are
Rejected(matchId, order) ==
    placeBet(Ledger, matches, matchId, order.team_bet_on, order.amount, order.odds) = Ledger

\* the ids of the active odds snapshots of a match, in the order they were appended
ActiveSnapshots(matchId) ==
    {i \in 1..Len(betting_odds) : betting_odds[i].match_id = matchId /\ betting_odds[i].is_active = 1}

OddsOfSide(snapshot, side) ==
    CASE side = "HOME" -> snapshot.home_odds
      [] side = "DRAW" -> snapshot.draw_odds
      [] side = "AWAY" -> snapshot.away_odds

\* the odds on offer for a side: the value in the latest active snapshot of the
\* match, NullOdds when the match has no snapshot
CurrentOdds(matchId, side) ==
    IF ActiveSnapshots(matchId) = {} THEN NullOdds
    ELSE OddsOfSide(betting_odds[Max(ActiveSnapshots(matchId))], side)

\* C11: placeBet on a match id that does not exist, or on a match that is
\* COMPLETED at the moment the bet is written, creates no bet, appends no
\* transaction and leaves account.balance unchanged
C11_CompletedMatchRejected ==
    \A m \in MatchIds, order \in BetOrders :
        (m \notin 1..Len(matches) \/ matches[m].status = "COMPLETED") => Rejected(m, order)

\* C12: placeBet on a side whose current odds value is null, or on a match
\* without any odds snapshot, creates no bet, appends no transaction and
\* leaves account.balance unchanged
C12_NullOddsRejected ==
    \A m \in 1..Len(matches), order \in BetOrders :
        CurrentOdds(m, order.team_bet_on) = NullOdds => Rejected(m, order)

\* C13: the odds_taken of a newly placed bet on a side that has odds on offer
\* is the value for that side in the latest active snapshot of the match
C13_OddsTakenIsCurrent ==
    [][Len(bets') > Len(bets) =>
          LET bet == bets'[Len(bets')]
          IN  CurrentOdds(bet.match_id, bet.team_bet_on) # NullOdds
                  => bet.odds_taken = CurrentOdds(bet.match_id, bet.team_bet_on)]_vars

\* C14: placeBet with a stake that is zero or negative creates no bet, appends
\* no transaction and leaves account.balance unchanged
C14_NonPositiveStakeRejected ==
    \A m \in 1..Len(matches), order \in BetOrders :
        order.amount <= 0 => Rejected(m, order)

\* C15: placeBet with a stake greater than account.balance creates no bet,
\* appends no transaction and leaves account.balance unchanged
C15_InsufficientFundsRejected ==
    \A m \in MatchIds, order \in BetOrders :
        order.amount > account.balance => Rejected(m, order)

\* after a bet of 50 the balance is 950: the stake of 1000 on an existing match
\* exceeds it and nothing else stands in the way of the bet
C15_Witness ==
    /\ Len(matches) >= 1
    /\ account.balance = 950
    /\ \E order \in BetOrders : order.amount > account.balance

\* no process is inside an operation whose statements start with this name
NoneInside(names) == \A p \in Procs : proc[p].pc \notin names

PlaceBetSteps == {"placeBet_insert", "placeBet_update", "placeBet_journal"}
SettleBetSteps == {"settleBet_account", "settleBet_bet", "settleBet_journal", "settleBet_summary"}

\* the bets that are no longer PENDING
SettledBets == {b \in 1..Len(bets) : bets[b].status # "PENDING"}

HasRow(type, betId) ==
    \E t \in 1..Len(transactions) :
        transactions[t].type = type /\ transactions[t].bet_id = betId

\* C16: once no placeBet is under way, interrupted or not, and before any
\* settlement, every bet in the table has its BET_PLACED transaction and its
\* stake is off the balance: the balance is what the journal replays to
C16_PlaceBetAllOrNothing ==
    (NoneInside(PlaceBetSteps \cup SettleBetSteps) /\ SettledBets = {}) =>
        /\ \A b \in 1..Len(bets) : HasRow("BET_PLACED", b)
        /\ Replay(initialBalance, Tail(transactions)) = account.balance

\* C17: once no settleBet is under way, interrupted or not, every bet that is
\* WON or LOST has its BET_SETTLEMENT transaction and is counted in the win
\* and loss counters, and the profit_loss of these bets is in the account;
\* stated for bets whose placement ran to its end
C17_SettlementPerBetAtomic ==
    (/\ NoneInside(PlaceBetSteps \cup SettleBetSteps)
     /\ \A b \in 1..Len(bets) : HasRow("BET_PLACED", b)) =>
        /\ \A b \in SettledBets : HasRow("BET_SETTLEMENT", b)
        /\ account.total_wins + account.total_losses = Cardinality(SettledBets)
        /\ account.total_profit_loss = SumProfitLoss(bets, SettledBets)

\* C18: when the operations of the two processes have all completed, in
\* whatever order their statements ran, account.balance is the initial balance
\* plus the effect of every completed operation, as its transaction records it
C18_NoLostUpdate ==
    NoneInside(PlaceBetSteps \cup SettleBetSteps
               \cup {"addFunds_update", "addFunds_journal",
                     "withdrawFunds_update", "withdrawFunds_journal"})
        => account.balance = Replay(initialBalance, Tail(transactions))

\* C19: two placeBet calls that have read the same balance B, with stakes that
\* B covers one by one and not together, do not both get their bet inserted
C19_ConcurrentStakesWithinBalance ==
    \A p, q \in Procs :
        (/\ p # q
         /\ proc[p].pc \in PlaceBetSteps /\ proc[q].pc \in PlaceBetSteps
         /\ proc[p].currentBalance = proc[q].currentBalance
         /\ proc[p].amount <= proc[p].currentBalance
         /\ proc[q].amount <= proc[q].currentBalance
         /\ proc[p].amount + proc[q].amount > proc[p].currentBalance)
        => ~ (proc[p].betId # NoBet /\ proc[q].betId # NoBet)

\* C20: in no state that a reader can see has a deposit, a withdrawal or a
\* placement written its new balance to the account while its transactions
\* row is still to be inserted
C20_BalanceNeverAheadOfJournal ==
    \A p \in Procs :
        proc[p].pc \in {"placeBet_journal", "addFunds_journal", "withdrawFunds_journal"}
            => \E t \in 1..Len(transactions) :
                   /\ transactions[t].amount = proc[p].amount
                   /\ transactions[t].balance_before = proc[p].currentBalance
                   /\ transactions[t].balance_after = account.balance

\* the BET_SETTLEMENT rows of a bet
SettlementRows(b) ==
    {t \in 1..Len(transactions) :
        transactions[t].type = "BET_SETTLEMENT" /\ transactions[t].bet_id = b}

\* C21: when executions of settleBet for one match overlap, no bet gets a
\* second BET_SETTLEMENT row, and once they have ended every settled bet is
\* counted once in the win and loss counters and its profit_loss is in the
\* balance once
C21_SettledExactlyOnce ==
    /\ \A b \in 1..Len(bets) : Cardinality(SettlementRows(b)) <= 1
    /\ NoneInside(SettleBetSteps) =>
          /\ \A b \in SettledBets : Cardinality(SettlementRows(b)) = 1
          /\ account.total_wins + account.total_losses = Cardinality(SettledBets)
          /\ account.balance = Replay(initialBalance, Tail(transactions))

\* the odds rows of a match
SnapshotsOf(matchId) == {i \in 1..Len(betting_odds) : betting_odds[i].match_id = matchId}

\* C22: a step that appends an odds snapshot leaves the odds_taken and the
\* potential_win of every bet already placed as they are
C22_OddsTakenFrozen ==
    [][Len(betting_odds') > Len(betting_odds) =>
          \A b \in 1..Len(bets) :
              /\ b <= Len(bets')
              /\ bets'[b].odds_taken = bets[b].odds_taken
              /\ bets'[b].potential_win = bets[b].potential_win]_vars

\* the only bet is on a match that has two snapshots with different values,
\* the latest of them quoting the bet's side at other odds than the bet took
C22_Witness ==
    \E b \in 1..Len(bets) :
        /\ Len(bets) = 1
        /\ Cardinality(SnapshotsOf(bets[b].match_id)) >= 2
        /\ \E i, j \in SnapshotsOf(bets[b].match_id) :
               betting_odds[i].home_odds # betting_odds[j].home_odds
        /\ CurrentOdds(bets[b].match_id, bets[b].team_bet_on) # bets[b].odds_taken

\* the SCHEDULED rows of the stage and pairing of row i
ScheduledLike(table, i) ==
    ScheduledFor(table, table[i].stage_id, table[i].home_team_id, table[i].away_team_id)

\* C27: a step that appends an odds row attaches it to the SCHEDULED match of
\* its stage and pairing that was created last when there is one, with no new
\* match row, and otherwise to exactly one new SCHEDULED match row; and there
\* is never more than one SCHEDULED match per stage and pairing
C27_OneScheduledPerPairing ==
    /\ [](\A i, j \in 1..Len(matches) :
             (matches[i].status = "SCHEDULED" /\ j \in ScheduledLike(matches, i)) => i = j)
    /\ [][Len(betting_odds') > Len(betting_odds) =>
             LET m == betting_odds'[Len(betting_odds')].match_id
             IN  /\ Len(betting_odds') = Len(betting_odds) + 1
                 /\ m \in 1..Len(matches')
                 /\ matches'[m].status = "SCHEDULED"
                 /\ IF m <= Len(matches)
                    THEN matches' = matches /\ m = Max(ScheduledLike(matches, m))
                    ELSE /\ matches' = Append(matches, matches'[m])
                         /\ \A i \in 1..Len(matches) :
                                ~ (/\ matches[i].status = "SCHEDULED"
                                   /\ matches[i].stage_id = matches'[m].stage_id
                                   /\ matches[i].home_team_id = matches'[m].home_team_id
                                   /\ matches[i].away_team_id = matches'[m].away_team_id)]_vars

\* a SCHEDULED match with two odds rows attached, next to a COMPLETED match of
\* the same stage and pairing
C27_Witness ==
    \E i, j \in 1..Len(matches) :
        /\ matches[i].status = "SCHEDULED"
        /\ Cardinality(SnapshotsOf(i)) >= 2
        /\ matches[j].status = "COMPLETED"
        /\ matches[j].stage_id = matches[i].stage_id
        /\ matches[j].home_team_id = matches[i].home_team_id
        /\ matches[j].away_team_id = matches[i].away_team_id

\* C23: in every step every match row stays in the table with its stage,
\* teams and date, a COMPLETED match stays COMPLETED, and a status that
\* changes goes from SCHEDULED to COMPLETED
C23_CompletedIsTerminal ==
    [][\A i \in 1..Len(matches) :
          /\ i <= Len(matches')
          /\ matches'[i].stage_id = matches[i].stage_id
          /\ matches'[i].home_team_id = matches[i].home_team_id
          /\ matches'[i].away_team_id = matches[i].away_team_id
          /\ matches'[i].match_date = matches[i].match_date
          /\ matches[i].status = "COMPLETED" => matches'[i].status = "COMPLETED"
          /\ matches'[i].status # matches[i].status
                => matches[i].status = "SCHEDULED" /\ matches'[i].status = "COMPLETED"]_vars

\* a COMPLETED match that was observed twice with different scores, next to
\* a SCHEDULED match of the same pairing and date that saveOdds has created
C23_Witness ==
    /\ Cardinality(savedKeys) = 2
    /\ Len(matches) = 2
    /\ matches[1].status = "COMPLETED"
    /\ matches[2].status = "SCHEDULED"
    /\ matches[2].match_date = matches[1].match_date

\* C24: a match has a result if and only if it is COMPLETED
C24_ResultIffCompleted ==
    \A i \in 1..Len(matches) : (matches[i].result # Null) <=> (matches[i].status = "COMPLETED")

\* C28: in every state a deposit of an amount above 0 adds the amount to
\* account.balance and to total_deposits, leaves the rest of the account and
\* the bets alone and appends one DEPOSIT row with the balances before and
\* after, and a deposit of 0 or of a negative amount changes nothing
C28_DepositIffPositive ==
    \A amount \in FundAmounts :
        LET L == addFunds(Ledger, amount)
        IN  IF amount > 0
            THEN /\ L.account = [account EXCEPT !.balance = account.balance + amount,
                                                !.total_deposits = account.total_deposits + amount]
                 /\ L.bets = bets
                 /\ L.transactions = Append(transactions,
                        [bet_id |-> NoBet, type |-> "DEPOSIT", amount |-> amount,
                         balance_before |-> account.balance,
                         balance_after |-> account.balance + amount])
            ELSE L = Ledger

\* a deposit of 200 made at a balance that a bet had brought to 950
C28_Witness ==
    /\ account.total_deposits = 200
    /\ account.balance = 1150
    /\ transactions[Len(transactions)].type = "DEPOSIT"
    /\ transactions[Len(transactions)].balance_before = 950
    /\ transactions[Len(transactions)].balance_after = 1150

\* C29: in every state a withdrawal of more than the balance changes no
\* account field and appends no transaction, and a withdrawal of an amount
\* above 0 that the balance covers takes exactly the amount off the balance
C29_WithdrawWithinBalance ==
    \A amount \in FundAmounts :
        LET L == withdrawFunds(Ledger, amount)
        IN  /\ amount > account.balance => L = Ledger
            /\ (0 < amount /\ amount <= account.balance) =>
                   /\ L.account.balance = account.balance - amount
                   /\ L.account.total_withdrawals = account.total_withdrawals + amount
                   /\ Len(L.transactions) = Len(transactions) + 1

\* after a deposit of 200 at balance 1000 the withdrawal of 5000 is refused,
\* and a withdrawal of 200 has been made before
C29_Witness ==
    /\ account.balance = 1200
    /\ account.total_deposits = 400
    /\ account.total_withdrawals = 200
    /\ \E amount \in FundAmounts : amount > account.balance

\* the side of a score read as an integer, in tenths: the digits it is made
\* of, and 0 when the side is missing, empty or anything but digits
IntegerOrZero(parts, k) ==
    IF k <= Len(parts) /\ IsDigits(Trim(parts[k])) THEN 10 * DecimalValue(Trim(parts[k])) ELSE 0

\* C30: every match row saved with a score string has as home_score and
\* away_score the two sides of the string split on ':' and read as integers,
\* 0 for a side that is missing or is no integer, and as result HOME_WIN,
\* AWAY_WIN or DRAW as home_score is above, below or equal to away_score
C30_ScoresFromString ==
    \A i \in 1..Len(matches) :
        matches[i].full_time_score # NoScore =>
            LET parts == Split(matches[i].full_time_score)
                home == IntegerOrZero(parts, 1)
                away == IntegerOrZero(parts, 2)
            IN  /\ matches[i].home_score = home
                /\ matches[i].away_score = away
                /\ matches[i].result = (IF home > away THEN "HOME_WIN"
                                        ELSE IF away > home THEN "AWAY_WIN" ELSE "DRAW")

\* a name of the model trimmed and in capitals
Normalized(name) ==
    CASE name \in {"MATCHDAY 1", "Matchday 1"} -> "MATCHDAY 1"
      [] name \in {"TEAM A", "Team A"} -> "TEAM A"
      [] name \in {"TEAM B", "TEAM B "} -> "TEAM B"

\* C25: no two rows of teams and no two rows of tournament_stages hold names
\* that are equal once trimmed and put in one letter case, so that names
\* differing only in case or surrounding blanks have resolved to one id
C25_OneRowPerNormalizedName ==
    /\ \A i, j \in 1..Len(teams) : Normalized(teams[i]) = Normalized(teams[j]) => i = j
    /\ \A i, j \in 1..Len(tournament_stages) :
          Normalized(tournament_stages[i]) = Normalized(tournament_stages[j]) => i = j

\* C26: no match row stands for a stage or a team that was not resolved, and
\* no odds row hangs on such a row: an ingestion whose resolver returned no id
\* has written neither a match row nor an odds row
C26_NoRecordWithoutIds ==
    /\ \A i \in 1..Len(matches) :
          NullId \notin {matches[i].stage_id, matches[i].home_team_id, matches[i].away_team_id}
    /\ \A k \in 1..Len(betting_odds) :
          LET m == matches[betting_odds[k].match_id]
          IN  NullId \notin {m.stage_id, m.home_team_id, m.away_team_id}

\* C31: in every state a saveOdds call leaves the odds log one row longer,
\* and in every step the rows the odds log had stay as they were and at most
\* one row is added, so that two observations of one match with different
\* odds are two rows
C31_OddsAppendOnly ==
    /\ [](\A stage \in StageNames, p \in Pairings, o \in OddsSeries :
            Len(saveOdds(tournament_stages, teams, matches, betting_odds,
                         [tournament_stage |-> stage, home_team |-> p[1], away_team |-> p[2],
                          home_odds |-> o.home_odds, draw_odds |-> o.draw_odds,
                          away_odds |-> o.away_odds], today).betting_odds)
               = Len(betting_odds) + 1)
    /\ [][/\ Len(betting_odds') \in {Len(betting_odds), Len(betting_odds) + 1}
          /\ SubSeq(betting_odds', 1, Len(betting_odds)) = betting_odds]_vars

\* two odds rows of one match that differ in their odds, the older one as
\* it was inserted
C31_Witness ==
    /\ Len(betting_odds) = 2
    /\ betting_odds[1].match_id = betting_odds[2].match_id
    /\ betting_odds[1].home_odds = 25
    /\ betting_odds[2].home_odds = 27
    /\ betting_odds[1].away_odds = NullOdds

\* C32: once an operation has run to its end, total_wins is the number of
\* WON bets, total_losses the number of LOST bets and total_profit_loss the
\* sum of profit_loss over the bets that are no longer PENDING
C32_TotalsMatchBets ==
    /\ account.total_wins = Cardinality({b \in 1..Len(bets) : bets[b].status = "WON"})
    /\ account.total_losses = Cardinality({b \in 1..Len(bets) : bets[b].status = "LOST"})
    /\ account.total_profit_loss = SumProfitLoss(bets, SettledBets)

\* a bet lost and a bet won, both counted and their profit and loss summed
C32_Witness ==
    /\ Len(bets) = 2
    /\ bets[1].status = "LOST"
    /\ bets[2].status = "WON"
    /\ account.total_wins = 1
    /\ account.total_losses = 1
    /\ account.total_profit_loss = bets[1].profit_loss + bets[2].profit_loss

\* C33: initialisation of an empty database creates one account row with
\* balance 1000 and totals 0, and in every state initialisation on the
\* existing database leaves the one account row and the transactions as
\* they are
C33_InitializeOnce ==
    /\ LET first == initializeAccount(<<>>, <<>>)
       IN  /\ Len(first.account) = 1
           /\ first.account[1].balance = initialBalance
           /\ first.account[1].total_deposits = 0
           /\ Len(first.transactions) = 1
    /\ LET again == initializeAccount(AccountTable, transactions)
       IN  /\ Len(again.account) = 1
           /\ again.account = AccountTable
           /\ again.transactions = transactions

\* a database whose balance and totals are no longer those of the set-up: a
\* bet, a deposit and a withdrawal have been made
C33_Witness ==
    /\ account.balance # initialBalance
    /\ account.total_deposits > 0
    /\ account.total_withdrawals > 0
    /\ bets # <<>>

\* C34: under deposits, withdrawals, placements and settlements the balance
\* is never below 0, also once a losing bet has been settled
C34_BalanceNeverNegativeSettled == 0 <= account.balance

C36_ResultSettlesScheduledBets ==
    [][savedKeys' # savedKeys =>
          LET key == CHOOSE k \in savedKeys' \ savedKeys : TRUE
          IN  \A b \in 1..Len(bets) :
                  LET m == bets[b].match_id
                  IN  (/\ bets[b].status = "PENDING"
                       /\ matches[m].status = "SCHEDULED"
                       /\ tournament_stages[matches[m].stage_id] = key[1]
                       /\ teams[matches[m].home_team_id] = key[2]
                       /\ teams[matches[m].away_team_id] = key[3])
                      => /\ matches'[m].status = "COMPLETED"
                         /\ bets'[b].status # "PENDING"]_vars

\* C37: a step that saves a result on a match row or settles a bet adds one
\* new observation key, so that an observation whose key has been seen
\* changes no match, bet, account or transaction
C37_SavedOncePerKey ==
    [][(\/ SettledByStep # {}
        \/ Len(transactions') > Len(transactions)
               /\ transactions'[Len(transactions')].type = "BET_SETTLEMENT"
        \/ \E i \in 1..Len(matches') :
               /\ matches'[i].status = "COMPLETED"
               /\ i > Len(matches) \/ matches'[i] # matches[i])
          => /\ savedKeys \subseteq savedKeys'
             /\ Cardinality(savedKeys') = Cardinality(savedKeys) + 1]_vars

\* an observation key that has been seen, and a bet placed since then on the
\* COMPLETED match it was saved to: observing the key once more must leave
\* the bet as it is
C37_Witness ==
    /\ savedKeys # {}
    /\ \E b \in 1..Len(bets) :
          /\ bets[b].status = "PENDING"
          /\ matches[bets[b].match_id].status = "COMPLETED"

====
